---- MODULE Spec2Model ----
(***************************************************************************)
(* Eyece: the connection / subscription protocol.                          *)
(*                                                                         *)
(* The worker is the futures::stream::unfold of Subscription::stream       *)
(* (src/src/eye/subscription.rs): every call of its closure is one step    *)
(* that turns a State into one Event and the next State.  The UI side is   *)
(* the Connection handle (src/src/eye/connection.rs), which only sends     *)
(* Requests over an mpsc channel and sends StopStream when it is dropped.  *)
(* The device and the frame source are external: every call on them is a   *)
(* nondeterministic choice between success and failure.                    *)
(***************************************************************************)
EXTENDS Naturals, Sequences, FiniteSets

VARIABLES
    state,      \* the worker's State: "Ready", "Idle", "Streaming", "Finished"
    ended,      \* the unfold closure has returned None: the event stream is over
    chan,       \* the mpsc channel: queue, sender (tx), receiver (rx), and
                \* sent, the history of every Request ever enqueued
    device,     \* TRUE while a State holds the opened device
    stream,     \* the frame source held by State::Streaming (0: none)
    open,       \* the frame sources that are currently open (not yet dropped)
    opened,     \* how many frame sources device.stream() has handed out
    events,     \* the Event stream: every Event the worker has yielded, in order
    causes,     \* for events[i]: the State the step ran in and the Request it took
    calls,      \* the device / frame-source calls of the last worker step, in order
    peakOpen,   \* the most frame sources open at once during the last worker step
    faults,     \* how many device / frame-source operations have failed so far
    panicked,   \* a method of the handle has panicked in unwrap()
    eyece,      \* the application: the fields of struct Eyece (src/src/main.rs)
    recipe,     \* the ImageStream recipe (src/src/stream.rs): its State, whether
                \* its unfold has ended, the Events it yielded and the results
                \* of its frame pulls
    log         \* the Log of the application: its level and its buffer

vars == <<state, ended, chan, device, stream, open, opened, events, causes,
          calls, peakOpen, faults, panicked, eyece, recipe, log>>

\* the variables of the application, which the worker and the handle do not
\* touch
gui == <<eyece, recipe, log>>

----------------------------------------------------------------------------
(* Bounds of the model. *)

\* the UI calls at most MaxSent methods of the handle before it drops it
MaxSent == 3

\* the worker yields at most MaxEvents events
MaxEvents == 6

\* at most MaxFaults device or frame-source calls fail in one run
MaxFaults == 2

\* the UI calls at most MaxLiveSent methods of the handle before it drops it
\* in the runs checked for progress
MaxLiveSent == 2

\* the recipe pulls at most MaxPulls frames
MaxPulls == 4

\* at most MaxLogged messages are logged
MaxLogged == 103

----------------------------------------------------------------------------
(* Requests, Responses and Events. *)

NoRequest == "none"
NoError == "none"
NoStream == 0

\* enum Request, plus the GetFormat the worker's match arms name
Requests ==
    {"StartStream", "StopStream", "QueryFormats", "QueryControls",
     "GetFormat", "SetFormat", "SetControl"}

\* the Requests the shared handler serves
HandlerRequests ==
    {"QueryFormats", "QueryControls", "GetFormat", "SetFormat", "SetControl"}

Event(type, kind, ok, err) ==
    [type |-> type, kind |-> kind, ok |-> ok, err |-> err]

Connected == Event("Connected", NoRequest, TRUE, NoError)
Disconnected == Event("Disconnected", NoRequest, TRUE, NoError)
Error(err) == Event("Error", NoRequest, FALSE, err)
Stream == Event("Stream", NoRequest, TRUE, NoError)

\* Response::<kind>(Ok(..)) and Response::<kind>(Err(e)), wrapped in Event::Response
ResponseOk(kind) == Event("Response", kind, TRUE, NoError)

\* Response::<kind>(Ok(val)), for the results whose value the model keeps
ResponseVal(kind, val) ==
    [type |-> "Response", kind |-> kind, ok |-> TRUE, err |-> NoError,
     val |-> val]
ResponseErr(kind, err) == Event("Response", kind, FALSE, err)

\* one device or frame-source call of a step and whether it returned Ok
Call(op, ok) == [op |-> op, ok |-> ok]

\* a successful call that returned ret
CallRet(op, ret) == [op |-> op, ok |-> TRUE, ret |-> ret]

\* a call with the argument arg; ret is what it returned when it succeeded
CallArg(op, ok, arg, ret) == [op |-> op, ok |-> ok, arg |-> arg, ret |-> ret]

\* the io::Error a failing device call returns is named after the call
ErrOf(op) == op

----------------------------------------------------------------------------
(* The mpsc channel. *)

\* before the worker's first step there is no channel
NoChannel == [queue |-> <<>>, tx |-> FALSE, rx |-> FALSE, sent |-> <<>>]

\* mpsc::channel(): an empty queue, both ends alive
channel == [queue |-> <<>>, tx |-> TRUE, rx |-> TRUE, sent |-> <<>>]

\* send, on a channel that hands out the newest Request first
sendNewestFirst(c, req) ==
    IF c.rx
    THEN [c EXCEPT !.queue = <<req>> \o @, !.sent = Append(@, req)]
    ELSE c

\* Sender::send: enqueues while the receiver is alive, Err otherwise
send(c, req) ==
    IF c.rx
    THEN [c EXCEPT !.queue = Append(@, req), !.sent = Append(@, req)]
    ELSE c

\* the Sender is released when the Connection's fields are dropped
ReleaseSender(c) == [c EXCEPT !.tx = FALSE]

\* the Receiver is released when the State holding it is dropped
ReleaseReceiver(c) == [c EXCEPT !.rx = FALSE, !.queue = <<>>]

----------------------------------------------------------------------------
(* The Connection handle (UI side). *)

\* ConnectionDropped, without the stop_stream of Drop
ConnectionDroppedSilently(c) == ReleaseSender(c)

\* impl Drop for Connection, on the channel: drop() runs stop_stream, then the
\* fields (the Sender) are dropped
ConnectionDropped(c) == ReleaseSender(send(c, "StopStream"))

----------------------------------------------------------------------------
(* The device as the worker sees it. *)

\* the representations of the controls the device reports, in its order
DeviceControls == <<"Boolean", "Integer", "Button">>

\* the pixel formats of the device: PixelFormat::Bgra(32), PixelFormat::Bgra(24)
\* and any other
PixelFormats == {"Bgra32", "Bgra24", "Other"}

\* the pixel format negotiated during opening: PixelFormat::Bgra(32)
TargetPixelFormat == "Bgra32"

\* a format of the device (Format or FormatInfo: pixfmt, width, height)
Format(pixfmt, width, height) ==
    [pixfmt |-> pixfmt, width |-> width, height |-> height]

\* the formats device.query_formats() reports, in the device's order
DeviceFormats ==
    <<Format("Bgra32", 640, 480), Format("Bgra24", 800, 600),
      Format("Bgra32", 1280, 720), Format("Other", 1920, 1080)>>

\* model::format::Format { width, height } of a FormatInfo
Resolution(info) == [width |-> info.width, height |-> info.height]

\* the resolutions of the entries of infos whose pixfmt is pixfmt, in order
Resolutions(infos, pixfmt) ==
    LET kept == SelectSeq(infos, LAMBDA info : info.pixfmt = pixfmt)
    IN [i \in 1..Len(kept) |-> Resolution(kept[i])]

\* the pixfmt whose entries QueryFormats keeps: PixelFormat::Bgra(24)
QueryFormatsPixelFormat == "Bgra24"

\* the formats device.format() may return when the device is opened
CurrentFormats == {DeviceFormats[i] : i \in 1..Len(DeviceFormats)}

\* the outcomes of ImageStream::next: a frame, an io::Error, or None
FrameOutcomes == {"Frame", "Err", "None"}

\* DropStream, leaving the frame source open
DropStreamLeaks(o, s) == o

\* the stream is dropped: it is no longer open
DropStream(o, s) == o \ {s}

\* the largest of the sizes of the sets of frame sources in seq
RECURSIVE PeakOf(_)
PeakOf(seq) ==
    IF seq = <<>> THEN 0
    ELSE LET rest == PeakOf(Tail(seq))
             n == Cardinality(Head(seq))
         IN IF n > rest THEN n ELSE rest

\* the device operations a step that takes `request` may call
OpsOf(request) ==
    CASE request = "StartStream" -> {"stream"}
      [] request = "QueryFormats" -> {"query_formats"}
      [] request = "QueryControls" -> {"query_controls", "control"}
      [] request = "GetFormat" -> {"format"}
      [] request = "SetFormat" -> {"format", "set_format", "stream"}
      [] request = "SetControl" -> {"set_control"}
      [] OTHER -> {}

\* the sets of operations that may fail in one step, within the fault budget
FailChoices(ops) ==
    {f \in SUBSET ops : Cardinality(f) + faults <= MaxFaults}

\* how many distinct operations failed among the calls of a step
Failed(cs) == Cardinality({cs[i].op : i \in {j \in 1..Len(cs) : ~cs[j].ok}})

----------------------------------------------------------------------------
(* Subscription::handle_request: the shared command handler.              *)
(* fails is the set of device operations that return Err in this step.    *)

NoResponse == Event("None", NoRequest, FALSE, NoError)

\* the follow-up device.control(id) of every Boolean or Integer control;
\* an Err is dropped by `if let Ok(val) = res`
ControlReads(fails) ==
    LET readable == SelectSeq(DeviceControls,
                              LAMBDA r : r \in {"Boolean", "Integer"})
    IN [i \in 1..Len(readable) |-> Call("control", "control" \notin fails)]

handle_request(request, fails) ==
    CASE request = "QueryFormats" ->
           IF "query_formats" \notin fails
           THEN [res |-> ResponseVal("QueryFormats",
                                     Resolutions(DeviceFormats,
                                                 QueryFormatsPixelFormat)),
                 calls |-> <<Call("query_formats", TRUE)>>]
           ELSE [res |-> ResponseErr("QueryFormats", ErrOf("query_formats")),
                 calls |-> <<Call("query_formats", FALSE)>>]
      [] request = "QueryControls" ->
           IF "query_controls" \notin fails
           THEN [res |-> ResponseOk("QueryControls"),
                 calls |-> <<Call("query_controls", TRUE)>> \o ControlReads(fails)]
           ELSE [res |-> ResponseErr("QueryControls", ErrOf("query_controls")),
                 calls |-> <<Call("query_controls", FALSE)>>]
      [] request = "GetFormat" ->
           IF "format" \notin fails
           THEN [res |-> ResponseOk("GetFormat"),
                 calls |-> <<Call("format", TRUE)>>]
           ELSE [res |-> ResponseErr("GetFormat", ErrOf("format")),
                 calls |-> <<Call("format", FALSE)>>]
      [] request = "SetFormat" ->
           IF "format" \in fails
           THEN [res |-> ResponseErr("SetFormat", ErrOf("format")),
                 calls |-> <<Call("format", FALSE)>>]
           ELSE IF "set_format" \in fails
           THEN [res |-> ResponseErr("SetFormat", ErrOf("set_format")),
                 calls |-> <<Call("format", TRUE), Call("set_format", FALSE)>>]
           ELSE [res |-> ResponseOk("SetFormat"),
                 calls |-> <<Call("format", TRUE), Call("set_format", TRUE)>>]
      [] request = "SetControl" ->
           IF "set_control" \notin fails
           THEN [res |-> ResponseOk("SetControl"),
                 calls |-> <<Call("set_control", TRUE)>>]
           ELSE [res |-> ResponseErr("SetControl", ErrOf("set_control")),
                 calls |-> <<Call("set_control", FALSE)>>]
      [] OTHER -> [res |-> NoResponse, calls |-> <<>>]

\* `match Self::handle_request(..) { Some(res) => Event::Response(res), None => .. }`
HandledEvent(h) ==
    IF h.res # NoResponse THEN h.res ELSE Error("cannot handle request")

----------------------------------------------------------------------------
(* Subscription::stream: the steps of the worker.  A step yields           *)
(*   ev: the Event, st: the next State, stream: the frame source the next  *)
(*   State holds, device: whether it holds the device, calls: the device   *)
(*   calls in order, seen: the sets of open frame sources the step went    *)
(*   through (the last one is the set it leaves).                          *)

Step(ev, st, dev, strm, cs, seen) ==
    [ev |-> ev, st |-> st, device |-> dev, stream |-> strm, calls |-> cs,
     seen |-> seen]

\* the frame source a successful device.stream() returns next
NewStream == opened + 1

\* the format the Ready arm passes to device.set_format: the current format
\* with its pixfmt replaced by the target
Requested(current) == [current EXCEPT !.pixfmt = TargetPixelFormat]

\* the format a successful device.set_format returns, with the pixfmt the
\* device settled on
Negotiated(arg, pixfmt) == [arg EXCEPT !.pixfmt = pixfmt]

\* ReadyStep, going on when reading or setting the format fails
ReadyStepIgnoresFormatErrors(fails, current, pixfmt) ==
    IF "open_device" \in fails
    THEN Step(Error(ErrOf("open_device")), "Finished", FALSE, NoStream,
              <<Call("open_device", FALSE)>>, <<open>>)
    ELSE Step(Connected, "Idle", TRUE, NoStream,
              <<Call("open_device", TRUE), Call("format", "format" \notin fails),
                Call("set_format", "set_format" \notin fails)>>, <<open>>)

\* ReadyStep, asking for the device's current format unchanged
ReadyStepKeepsLayout(fails, current, pixfmt) ==
    IF "open_device" \in fails
    THEN Step(Error(ErrOf("open_device")), "Finished", FALSE, NoStream,
              <<Call("open_device", FALSE)>>, <<open>>)
    ELSE IF "format" \in fails
    THEN Step(Error(ErrOf("format")), "Finished", FALSE, NoStream,
              <<Call("open_device", TRUE), Call("format", FALSE),
                Call("drop_device", TRUE)>>, <<open>>)
    ELSE IF "set_format" \in fails
    THEN Step(Error(ErrOf("set_format")), "Finished", FALSE, NoStream,
              <<Call("open_device", TRUE), CallRet("format", current),
                CallArg("set_format", FALSE, current, NoError),
                Call("drop_device", TRUE)>>, <<open>>)
    ELSE IF current.pixfmt # TargetPixelFormat
    THEN Step(Error("device does not support BGRA capture"), "Finished", FALSE,
              NoStream,
              <<Call("open_device", TRUE), CallRet("format", current),
                CallArg("set_format", TRUE, current, current),
                Call("drop_device", TRUE)>>, <<open>>)
    ELSE Step(Connected, "Idle", TRUE, NoStream,
              <<Call("open_device", TRUE), CallRet("format", current),
                CallArg("set_format", TRUE, current, current)>>, <<open>>)

\* State::Ready: open the device and negotiate BGRA
ReadyStep(fails, current, pixfmt) ==
    IF "open_device" \in fails
    THEN Step(Error(ErrOf("open_device")), "Finished", FALSE, NoStream,
              <<Call("open_device", FALSE)>>, <<open>>)
    ELSE IF "format" \in fails
    THEN Step(Error(ErrOf("format")), "Finished", FALSE, NoStream,
              <<Call("open_device", TRUE), Call("format", FALSE),
                Call("drop_device", TRUE)>>, <<open>>)
    ELSE IF "set_format" \in fails
    THEN Step(Error(ErrOf("set_format")), "Finished", FALSE, NoStream,
              <<Call("open_device", TRUE), CallRet("format", current),
                CallArg("set_format", FALSE, Requested(current), NoError),
                Call("drop_device", TRUE)>>, <<open>>)
    ELSE IF pixfmt # TargetPixelFormat
    THEN Step(Error("device does not support BGRA capture"), "Finished", FALSE,
              NoStream,
              <<Call("open_device", TRUE), CallRet("format", current),
                CallArg("set_format", TRUE, Requested(current),
                        Negotiated(Requested(current), pixfmt)),
                Call("drop_device", TRUE)>>, <<open>>)
    ELSE Step(Connected, "Idle", TRUE, NoStream,
              <<Call("open_device", TRUE), CallRet("format", current),
                CallArg("set_format", TRUE, Requested(current),
                        Negotiated(Requested(current), pixfmt))>>, <<open>>)

\* IdleClosed, staying Idle after Disconnected
IdleClosedStaysIdle ==
    Step(Disconnected, "Idle", TRUE, NoStream, <<>>, <<open>>)

\* State::Idle, comm.recv() returned Err: the sender is gone
IdleClosed ==
    Step(Disconnected, "Finished", FALSE, NoStream,
         <<Call("drop_device", TRUE)>>, <<open>>)

\* IdleStartStream, trying device.stream() a second time when it failed
IdleStartStreamRetries(fails) ==
    IF "stream" \notin fails
    THEN Step(ResponseOk("StartStream"), "Streaming", TRUE, NewStream,
              <<Call("stream", TRUE)>>, <<open, open \cup {NewStream}>>)
    ELSE Step(ResponseOk("StartStream"), "Streaming", TRUE, NewStream,
              <<Call("stream", FALSE), Call("stream", TRUE)>>,
              <<open, open \cup {NewStream}>>)

\* State::Idle, Request::StartStream: device.stream()
IdleStartStream(fails) ==
    IF "stream" \notin fails
    THEN Step(ResponseOk("StartStream"), "Streaming", TRUE, NewStream,
              <<Call("stream", TRUE)>>, <<open, open \cup {NewStream}>>)
    ELSE Step(ResponseErr("StartStream", ErrOf("stream")), "Idle", TRUE,
              NoStream, <<Call("stream", FALSE)>>, <<open>>)

\* IdleHandled, ending the worker when the command fails on the device
IdleHandledFailureIsFatal(request, fails) ==
    LET h == handle_request(request, fails)
    IN IF h.res.ok
       THEN Step(HandledEvent(h), "Idle", TRUE, NoStream, h.calls, <<open>>)
       ELSE Step(Error(h.res.err), "Finished", FALSE, NoStream,
                 h.calls \o <<Call("drop_device", TRUE)>>, <<open>>)

\* State::Idle, the requests of the shared handler
IdleHandled(request, fails) ==
    LET h == handle_request(request, fails)
    IN Step(HandledEvent(h), "Idle", TRUE, NoStream, h.calls, <<open>>)

\* State::Idle, the `_` arm: every other request (StopStream)
IdleOther ==
    Step(Error("cannot handle this request in idle state"), "Idle", TRUE,
         NoStream, <<>>, <<open>>)

\* State::Idle, comm.recv() returned Ok(request)
IdleRequest(request, fails) ==
    CASE request = "StartStream" -> IdleStartStream(fails)
      [] request \in HandlerRequests -> IdleHandled(request, fails)
      [] OTHER -> IdleOther

\* StreamingStopStream, answering Ok but keeping the stream and the state
StreamingStopStreamKeepsStreaming ==
    Step(ResponseOk("StopStream"), "Streaming", TRUE, stream, <<>>, <<open>>)

\* State::Streaming, Request::StopStream: the stream is dropped with the State
StreamingStopStream ==
    Step(ResponseOk("StopStream"), "Idle", TRUE, NoStream,
         <<Call("drop_stream", TRUE)>>, <<open, DropStream(open, stream)>>)

\* StreamingSetFormat, dropping the old stream only once the new one is open
StreamingSetFormatKeepsStream(fails) ==
    LET h == handle_request("SetFormat", fails)
    IN IF "stream" \notin fails
       THEN Step(HandledEvent(h), "Streaming", TRUE, NewStream,
                 h.calls \o <<Call("stream", TRUE), Call("drop_stream", TRUE)>>,
                 <<open, open \cup {NewStream}, {NewStream}>>)
       ELSE Step(ResponseErr("SetFormat", ErrOf("stream")), "Idle", TRUE,
                 NoStream, h.calls \o <<Call("stream", FALSE)>>, <<open>>)

\* StreamingSetFormat, Streaming on without a frame source when the reopen fails
StreamingSetFormatStaysStreaming(fails) ==
    LET dropped == DropStream(open, stream)
        h == handle_request("SetFormat", fails)
    IN IF "stream" \notin fails
       THEN Step(HandledEvent(h), "Streaming", TRUE, NewStream,
                 <<Call("drop_stream", TRUE)>> \o h.calls
                     \o <<Call("stream", TRUE)>>,
                 <<open, dropped, dropped \cup {NewStream}>>)
       ELSE Step(ResponseErr("SetFormat", ErrOf("stream")), "Streaming", TRUE,
                 NoStream,
                 <<Call("drop_stream", TRUE)>> \o h.calls
                     \o <<Call("stream", FALSE)>>,
                 <<open, dropped>>)

\* StreamingSetFormat, reporting the format change when the reopen fails
StreamingSetFormatReportsChange(fails) ==
    LET dropped == DropStream(open, stream)
        h == handle_request("SetFormat", fails)
    IN IF "stream" \notin fails
       THEN Step(HandledEvent(h), "Streaming", TRUE, NewStream,
                 <<Call("drop_stream", TRUE)>> \o h.calls
                     \o <<Call("stream", TRUE)>>,
                 <<open, dropped, dropped \cup {NewStream}>>)
       ELSE Step(HandledEvent(h), "Idle", TRUE, NoStream,
                 <<Call("drop_stream", TRUE)>> \o h.calls
                     \o <<Call("stream", FALSE)>>,
                 <<open, dropped>>)

\* State::Streaming, Request::SetFormat: drop the stream, change the format,
\* reopen the stream
StreamingSetFormat(fails) ==
    LET dropped == DropStream(open, stream)
        h == handle_request("SetFormat", fails)
    IN IF "stream" \notin fails
       THEN Step(HandledEvent(h), "Streaming", TRUE, NewStream,
                 <<Call("drop_stream", TRUE)>> \o h.calls
                     \o <<Call("stream", TRUE)>>,
                 <<open, dropped, dropped \cup {NewStream}>>)
       ELSE Step(ResponseErr("SetFormat", ErrOf("stream")), "Idle", TRUE,
                 NoStream,
                 <<Call("drop_stream", TRUE)>> \o h.calls
                     \o <<Call("stream", FALSE)>>,
                 <<open, dropped>>)

\* StreamingHandled, closing the frame source for the command and reopening it
StreamingHandledReopens(req, fails) ==
    LET h == handle_request(req, fails)
        dropped == DropStream(open, stream)
    IN Step(HandledEvent(h), "Streaming", TRUE, NewStream,
            <<Call("drop_stream", TRUE)>> \o h.calls \o <<Call("stream", TRUE)>>,
            <<open, dropped, dropped \cup {NewStream}>>)

\* State::Streaming, the requests of the shared handler but SetFormat
StreamingHandled(req, fails) ==
    LET h == handle_request(req, fails)
    IN Step(HandledEvent(h), "Streaming", TRUE, stream, h.calls, <<open>>)

\* StreamingOther, opening a second frame source for a StartStream
StreamingOtherRestarts ==
    Step(ResponseOk("StartStream"), "Streaming", TRUE, NewStream,
         <<Call("drop_stream", TRUE), Call("stream", TRUE)>>,
         <<open, DropStream(open, stream), {NewStream}>>)

\* State::Streaming, the `_` arm: every other request (StartStream)
StreamingOther ==
    Step(Error("cannot handle this request in streaming state"), "Streaming",
         TRUE, stream, <<>>, <<open>>)

\* State::Streaming, comm.try_recv() returned Ok(req)
StreamingRequest(req, fails) ==
    CASE req = "StopStream" -> StreamingStopStream
      [] req = "SetFormat" -> StreamingSetFormat(fails)
      [] req \in {"QueryFormats", "QueryControls", "GetFormat", "SetControl"} ->
           StreamingHandled(req, fails)
      [] OTHER -> StreamingOther

\* StreamingFrame, ending the worker when the frame source fails or ends
StreamingFrameFailureFinishes(frame) ==
    IF frame = "Frame"
    THEN Step(Stream, "Streaming", TRUE, stream, <<Call("next", TRUE)>>, <<open>>)
    ELSE Step(Error(ErrOf("next")), "Finished", FALSE, NoStream,
              <<Call("next", FALSE), Call("drop_stream", TRUE),
                Call("drop_device", TRUE)>>,
              <<open, DropStream(open, stream)>>)

\* State::Streaming, comm.try_recv() returned Err: pull the next frame
StreamingFrame(frame) ==
    CASE frame = "Frame" ->
           Step(Stream, "Streaming", TRUE, stream, <<Call("next", TRUE)>>,
                <<open>>)
      [] frame = "Err" ->
           Step(Error(ErrOf("next")), "Idle", TRUE, NoStream,
                <<Call("next", FALSE), Call("drop_stream", TRUE)>>,
                <<open, DropStream(open, stream)>>)
      [] OTHER ->
           Step(Error("stream died"), "Idle", TRUE, NoStream,
                <<Call("next", FALSE), Call("drop_stream", TRUE)>>,
                <<open, DropStream(open, stream)>>)

----------------------------------------------------------------------------
(* The application (src/src/main.rs): struct Eyece and Eyece::update.  It  *)
(* holds the device itself; eyece.device is the Option of that field.      *)

\* the devices of the device pick list (DeviceFactory::enumerate)
Devices == {"video0", "video1"}

NoDevice == "None"

\* model::control::Value::None
NoValue == "None"

\* not panicked, or the place of the unwrap() that panicked
NoPanic == "none"

\* the values of a control of representation repr, as their to_string()
ControlValues(repr) ==
    CASE repr = "Boolean" -> {"true", "false"}
      [] repr = "Integer" -> {"0", "1"}
      [] OTHER -> {NoValue}

\* what device.control(id) returns for every control: a value of the
\* control, or NoValue for an Err
ControlReadings ==
    {read \in [1..Len(DeviceControls) -> {"true", "false", "0", "1", NoValue}] :
        \A i \in 1..Len(DeviceControls) :
            read[i] \in ControlValues(DeviceControls[i]) \cup {NoValue}}

\* the sets of operations that may fail while one message is handled: at
\* most one of the operations ops the handler and the subscription call
AppFailChoices(ops) == {{}} \cup {{op} : op \in ops}

\* `if self.buffer.len() > 100`
LogCapacity == 100

\* Log::update(LogMessage::Log(..)) on the length len of the buffer
log_update(len) == IF len > LogCapacity THEN (len - 1) + 1 ELSE len + 1

\* Eyece { ..Default::default() }
application ==
    [device |-> NoDevice,
     streaming |-> FALSE,
     config |-> [device |-> NoDevice, formats |-> <<>>, format |-> <<>>],
     controls |-> <<>>,
     log |-> 0,
     panicked |-> NoPanic]

\* model::control::Control::from(ctrl) for every control of the device, then
\* the value of every Boolean or Integer control whose read succeeds
controls_of(read) ==
    [i \in 1..Len(DeviceControls) |->
        [id |-> i,
         repr |-> DeviceControls[i],
         value |-> IF /\ DeviceControls[i] \in {"Boolean", "Integer"}
                      /\ read[i] \in ControlValues(DeviceControls[i])
                   THEN read[i]
                   ELSE NoValue]]

\* Controls::view unwraps the value of every Boolean and Integer control
view_panics(app) ==
    \E i \in 1..Len(app.controls) :
        /\ app.controls[i].repr \in {"Boolean", "Integer"}
        /\ app.controls[i].value = NoValue

\* Eyece::subscription unwraps dev.stream() while streaming with a device
subscription_panics(app, fails) ==
    app.streaming /\ app.device # NoDevice /\ "stream" \in fails

\* the application after update has returned app: iced asks for the
\* subscription and for the view
rendered(app, fails) ==
    IF subscription_panics(app, fails)
    THEN [app EXCEPT !.panicked = "subscription"]
    ELSE IF view_panics(app) THEN [app EXCEPT !.panicked = "view"]
    ELSE app

\* Message::DeviceSelected(dev): fails are the device operations that return
\* Err, pixfmt is the pixfmt of the format set_format returns; every path
\* logs one entry
DeviceSelected(dev, fails, pixfmt, read) ==
    LET closed == [eyece EXCEPT !.streaming = FALSE, !.device = NoDevice,
                                !.log = log_update(@)]
    IN IF \/ \E op \in {"create", "format", "set_format"} : op \in fails
          \/ pixfmt # TargetPixelFormat
          \/ "query_formats" \in fails
          \/ "query_controls" \in fails
       THEN closed
       ELSE [closed EXCEPT !.controls = controls_of(read),
                           !.device = dev,
                           !.streaming = TRUE,
                           !.config.device = dev,
                           !.config.formats = Resolutions(DeviceFormats, pixfmt)]

\* Message::FormatSelected(fmt)
FormatSelected(fmt, fails) ==
    LET stopped == [eyece EXCEPT !.streaming = FALSE]
    IN IF eyece.device = NoDevice
       THEN [stopped EXCEPT !.panicked = "FormatSelected"]
       ELSE IF "format" \in fails \/ "set_format" \in fails
       THEN [stopped EXCEPT !.log = log_update(@)]
       ELSE [stopped EXCEPT !.streaming = TRUE,
                            !.config.format = <<fmt>>,
                            !.log = log_update(@)]

\* Message::ControlChanged(control): control is the entry of the list the
\* widget was built from, with the value the widget sends
ControlChanged(control, fails) ==
    IF eyece.device = NoDevice
    THEN [eyece EXCEPT !.panicked = "ControlChanged"]
    ELSE IF "set_control" \in fails
              /\ \E i \in 1..Len(eyece.controls) :
                    eyece.controls[i].id = control.id
    THEN [eyece EXCEPT !.log = log_update(@)]
    ELSE [eyece EXCEPT
            !.controls = [i \in 1..Len(eyece.controls) |->
                            IF eyece.controls[i].id = control.id
                            THEN [eyece.controls[i] EXCEPT
                                     !.value = control.value]
                            ELSE eyece.controls[i]],
            !.log = log_update(@)]

----------------------------------------------------------------------------
(* The ImageStream recipe (src/src/stream.rs): the unfold over State.      *)

\* a frame of the frame source: an ImageView of width x height whose raw
\* memory holds elements of type storage
ImageView(width, height, storage, raw) ==
    [width |-> width, height |-> height, storage |-> storage, raw |-> raw]

\* the frames the frame source may hand out: the source is the stream of a
\* device held by the application, which holds a device only once it has
\* negotiated PixelFormat::Bgra(32) (main.rs:151-170), so the raw memory of
\* its frames is bytes
Frames ==
    {ImageView(640, 480, "u8", "a"), ImageView(640, 480, "u8", "b"),
     ImageView(1280, 720, "u8", "c")}

\* the results of stream.next(): Ok(frame) or Err(_)
PullOk(frame) == [ok |-> TRUE, frame |-> frame]
PullErr == [ok |-> FALSE]
PullResults == {PullOk(frame) : frame \in Frames} \cup {PullErr}

\* frame.raw().as_slice(): Some(bytes) for raw memory of bytes, else None
as_slice(frame) == IF frame.storage = "u8" THEN <<frame.raw>> ELSE <<>>

\* iced::image::Handle::from_pixels(width, height, pixels)
from_pixels(width, height, pixels) ==
    [width |-> width, height |-> height, pixels |-> pixels]

\* enum Event of stream.rs
Started == [type |-> "Started"]
Advanced(handle) == [type |-> "Advanced", handle |-> handle]
Errored == [type |-> "Errored"]

\* unfold(State::Ready(self.stream), ..): nothing polled yet
ImageStream ==
    [state |-> "Ready", ended |-> FALSE, events |-> <<>>, pulls |-> <<>>]

\* State::Ready(stream) => Some((Event::Started, State::Streaming(stream)))
ImageReady(r) ==
    [r EXCEPT !.state = "Streaming", !.events = Append(@, Started)]

\* Ok(frame) => ..: as_slice().unwrap() panics on None, and the closure
\* yields nothing; else the pixels are copied into the handle of Advanced
ImageFrame(r, frame) ==
    IF as_slice(frame) = <<>>
    THEN [r EXCEPT !.state = "Panicked"]
    ELSE [r EXCEPT !.events =
              Append(@, Advanced(from_pixels(frame.width, frame.height,
                                             as_slice(frame)[1])))]

\* State::Streaming, staying in Streaming when the pull fails
ImageStreamingRetries(r, res) ==
    LET pulled == [r EXCEPT !.pulls = Append(@, res)]
    IN IF res.ok
       THEN ImageFrame(pulled, res.frame)
       ELSE [pulled EXCEPT !.events = Append(@, Errored)]

\* State::Streaming(mut stream) => match stream.next(): res is its result
ImageStreaming(r, res) ==
    LET pulled == [r EXCEPT !.pulls = Append(@, res)]
    IN IF res.ok
       THEN ImageFrame(pulled, res.frame)
       ELSE [pulled EXCEPT !.state = "Broken", !.events = Append(@, Errored)]

\* State::Broken => None
ImageBroken(r) == [r EXCEPT !.ended = TRUE]

----------------------------------------------------------------------------
(* The Log of the application (src/src/main.rs): struct Log, Log::update.  *)

\* model::log::Level::ALL
Levels == <<"Error", "Warn", "Info", "Verbose">>

\* the level of the n-th message that is logged
LevelOf(n) == Levels[(n % Len(Levels)) + 1]

\* an entry of the buffer: (level, message); a message is modelled by its
\* number among the messages logged
LogEntry(level, message) == [level |-> level, message |-> message]

\* Log::default() with `eyece.log.level = model::log::Level::Warn`; logged
\* counts the Log messages handled so far
Log == [level |-> "Warn", buffer |-> <<>>, logged |-> 0]

\* LogMessage::Log, evicting the newest entry instead of the oldest
LogMessage_LogPopsBack(l, level, message) ==
    [l EXCEPT !.buffer = Append(IF Len(@) > LogCapacity
                                THEN SubSeq(@, 1, Len(@) - 1)
                                ELSE @,
                                LogEntry(level, message)),
              !.logged = @ + 1]

\* LogMessage::Log(level, message): pop_front() when the buffer holds more
\* than 100 entries, then push_back()
LogMessage_Log(l, level, message) ==
    [l EXCEPT !.buffer = Append(IF Len(@) > LogCapacity THEN Tail(@) ELSE @,
                                LogEntry(level, message)),
              !.logged = @ + 1]

\* LogMessage::LevelSelected(level)
LogMessage_LevelSelected(l, level) == [l EXCEPT !.level = level]

----------------------------------------------------------------------------
(* The state machine. *)

Init ==
    /\ state = "Ready"
    /\ ended = FALSE
    /\ chan = NoChannel
    /\ device = FALSE
    /\ stream = NoStream
    /\ open = {}
    /\ opened = 0
    /\ events = <<>>
    /\ causes = <<>>
    /\ calls = <<>>
    /\ peakOpen = 0
    /\ faults = 0
    /\ panicked = FALSE
    /\ eyece = application
    /\ recipe = ImageStream
    /\ log = Log

\* Yield, unwrapping the results of the device: a failed call panics, the
\* closure yields nothing and the State is lost
YieldUnwraps(r, request) ==
    /\ Len(events) < MaxEvents
    /\ faults + Failed(r.calls) <= MaxFaults
    /\ state' = IF Failed(r.calls) > 0 THEN "Panicked" ELSE r.st
    /\ device' = (Failed(r.calls) = 0 /\ r.device)
    /\ stream' = IF Failed(r.calls) > 0 THEN NoStream ELSE r.stream
    /\ open' = IF Failed(r.calls) > 0 THEN {} ELSE r.seen[Len(r.seen)]
    /\ opened' = IF r.stream \notin {NoStream, stream} THEN r.stream ELSE opened
    /\ events' = IF Failed(r.calls) > 0 THEN events ELSE Append(events, r.ev)
    /\ causes' = IF Failed(r.calls) > 0 THEN causes
                 ELSE Append(causes, [st |-> state, req |-> request])
    /\ calls' = r.calls
    /\ peakOpen' = PeakOf(r.seen)
    /\ faults' = faults + Failed(r.calls)
    /\ UNCHANGED <<gui, ended, panicked>>

\* the unfold yields Some((r.ev, next State)) for a step that took `request`
Yield(r, request) ==
    /\ Len(events) < MaxEvents
    /\ faults + Failed(r.calls) <= MaxFaults
    /\ state' = r.st
    /\ device' = r.device
    /\ stream' = r.stream
    /\ open' = r.seen[Len(r.seen)]
    /\ opened' = IF r.stream \notin {NoStream, stream} THEN r.stream ELSE opened
    /\ events' = Append(events, r.ev)
    /\ causes' = Append(causes, [st |-> state, req |-> request])
    /\ calls' = r.calls
    /\ peakOpen' = PeakOf(r.seen)
    /\ faults' = faults + Failed(r.calls)
    /\ UNCHANGED <<gui, ended, panicked>>

\* State::Ready: the channel and the Connection are created first; on an early
\* return the Connection is dropped, then the Receiver
WorkerReady ==
    /\ state = "Ready"
    /\ \E fails \in FailChoices({"open_device", "format", "set_format"}),
          current \in CurrentFormats, pixfmt \in PixelFormats :
          LET r == ReadyStep(fails, current, pixfmt)
          IN /\ Yield(r, NoRequest)
             /\ chan' = IF r.st = "Idle" THEN channel
                        ELSE ReleaseReceiver(ConnectionDropped(channel))

\* WorkerIdle, with a recv() that keeps blocking after the sender is gone
WorkerIdleIgnoresClosure ==
    /\ state = "Idle"
    /\ chan.queue # <<>>
    /\ \E fails \in FailChoices(OpsOf(Head(chan.queue))) :
          /\ Yield(IdleRequest(Head(chan.queue), fails), Head(chan.queue))
          /\ chan' = [chan EXCEPT !.queue = Tail(@)]

\* State::Idle: comm.recv() blocks until a request is queued or the sender is gone
WorkerIdle ==
    /\ state = "Idle"
    /\ IF chan.queue # <<>>
       THEN \E fails \in FailChoices(OpsOf(Head(chan.queue))) :
               /\ Yield(IdleRequest(Head(chan.queue), fails), Head(chan.queue))
               /\ chan' = [chan EXCEPT !.queue = Tail(@)]
       ELSE /\ ~chan.tx
            /\ Yield(IdleClosed, NoRequest)
            /\ chan' = ReleaseReceiver(chan)

\* WorkerStreaming, draining every pending command in one step
WorkerStreamingDrainsAll ==
    /\ state = "Streaming"
    /\ IF chan.queue # <<>>
       THEN \E fails \in FailChoices(OpsOf(Head(chan.queue))) :
               /\ Yield(StreamingRequest(Head(chan.queue), fails), Head(chan.queue))
               /\ chan' = [chan EXCEPT !.queue = <<>>]
       ELSE \E frame \in FrameOutcomes :
               /\ Yield(StreamingFrame(frame), NoRequest)
               /\ chan' = chan

\* WorkerStreaming, free to pull a frame while a Request is waiting
WorkerStreamingFramesFirst ==
    /\ state = "Streaming"
    /\ \/ /\ chan.queue # <<>>
          /\ \E fails \in FailChoices(OpsOf(Head(chan.queue))) :
                /\ Yield(StreamingRequest(Head(chan.queue), fails),
                         Head(chan.queue))
                /\ chan' = [chan EXCEPT !.queue = Tail(@)]
       \/ \E frame \in FrameOutcomes :
             /\ Yield(StreamingFrame(frame), NoRequest)
             /\ chan' = chan

\* State::Streaming: comm.try_recv(), and stream.next() when it returned Err
WorkerStreaming ==
    /\ state = "Streaming"
    /\ IF chan.queue # <<>>
       THEN \E fails \in FailChoices(OpsOf(Head(chan.queue))) :
               /\ Yield(StreamingRequest(Head(chan.queue), fails), Head(chan.queue))
               /\ chan' = [chan EXCEPT !.queue = Tail(@)]
       ELSE \E frame \in FrameOutcomes :
               /\ Yield(StreamingFrame(frame), NoRequest)
               /\ chan' = chan

\* WorkerFinished, yielding Disconnected again instead of None
WorkerFinishedYieldsAgain ==
    /\ state = "Finished"
    /\ Yield(Step(Disconnected, "Finished", FALSE, NoStream, <<>>, <<open>>),
             NoRequest)
    /\ chan' = chan

\* State::Finished: the closure returns None and the stream ends
WorkerFinished ==
    /\ state = "Finished"
    /\ ~ended
    /\ ended' = TRUE
    /\ calls' = <<>>
    /\ UNCHANGED <<gui, state, chan, device, stream, open, opened, events, causes,
                   peakOpen, faults, panicked>>

\* the UI holds the Connection once Connected has been yielded, until it drops it
HandleHeld ==
    /\ chan.tx
    /\ \E i \in 1..Len(events) : events[i] = Connected
    /\ ~panicked

\* Enqueue, with a handle that also performs the call on the device itself
EnqueueCallsDevice(request) ==
    /\ HandleHeld
    /\ Len(chan.sent) < MaxSent
    /\ chan' = send(chan, request)
    /\ panicked' = ~chan.rx
    /\ calls' = <<Call(request, TRUE)>>
    /\ UNCHANGED <<gui, state, ended, device, stream, open, opened, events, causes,
                   peakOpen, faults>>

\* self.comm.send(request).unwrap()
Enqueue(request) ==
    /\ HandleHeld
    /\ Len(chan.sent) < MaxSent
    /\ chan' = send(chan, request)
    /\ panicked' = ~chan.rx
    /\ UNCHANGED <<gui, state, ended, device, stream, open, opened, events, causes,
                   calls, peakOpen, faults>>

start_stream == Enqueue("StartStream")
stop_stream == Enqueue("StopStream")
query_formats == Enqueue("QueryFormats")
query_controls == Enqueue("QueryControls")
set_format == Enqueue("SetFormat")
set_control == Enqueue("SetControl")

\* drop, for a Connection whose Drop sends nothing
dropWithoutStop ==
    /\ HandleHeld
    /\ chan' = ReleaseSender(chan)
    /\ panicked' = FALSE
    /\ UNCHANGED <<gui, state, ended, device, stream, open, opened, events, causes,
                   calls, peakOpen, faults>>

\* the UI drops the Connection
drop ==
    /\ HandleHeld
    /\ chan' = ConnectionDropped(chan)
    /\ panicked' = ~chan.rx
    /\ UNCHANGED <<gui, state, ended, device, stream, open, opened, events, causes,
                   calls, peakOpen, faults>>

Next ==
    \/ WorkerReady
    \/ WorkerIdle
    \/ WorkerStreaming
    \/ WorkerFinished
    \/ start_stream
    \/ stop_stream
    \/ query_formats
    \/ query_controls
    \/ set_format
    \/ set_control
    \/ drop

Spec == Init /\ [][Next]_vars

\* The BoxStream that Subscription::stream returns belongs to its caller.  When
\* the caller drops it between two steps, the State it holds is dropped with
\* it: the Receiver, the device and the frame source are released and no step
\* runs again ("Dropped").  The Connection may still be in the UI's hands.
Cancel ==
    /\ state \in {"Idle", "Streaming"}
    /\ state' = "Dropped"
    /\ chan' = ReleaseReceiver(chan)
    /\ device' = FALSE
    /\ stream' = NoStream
    /\ open' = {}
    /\ calls' = <<>>
    /\ UNCHANGED <<gui, ended, opened, events, causes, peakOpen, faults, panicked>>

NextCancel == Next \/ Cancel

\* the protocol with a caller that may drop the worker's stream
SpecCancel == Init /\ [][NextCancel]_vars

\* one poll of the unfold by the executor
Worker == WorkerReady \/ WorkerIdle \/ WorkerStreaming \/ WorkerFinished

\* the UI may still send a Request in the runs checked for progress
LiveRoom == Len(chan.sent) < MaxLiveSent

NextLive ==
    \/ WorkerReady
    \/ WorkerIdle
    \/ WorkerStreaming
    \/ WorkerFinished
    \/ LiveRoom /\ start_stream
    \/ LiveRoom /\ stop_stream
    \/ LiveRoom /\ query_formats
    \/ LiveRoom /\ query_controls
    \/ LiveRoom /\ set_format
    \/ LiveRoom /\ set_control
    \/ drop

\* the protocol with an executor that keeps polling the worker's stream, and a
\* device whose calls return: a step that can be taken is eventually taken
SpecLive == Init /\ [][NextLive]_vars /\ WF_vars(Worker)

\* the application is running: no unwrap() has panicked
Running == eyece.panicked = NoPanic

\* the worker's variables, which the application does not touch
worker == <<state, ended, chan, device, stream, open, opened, events, causes,
            calls, peakOpen, faults, panicked>>

\* the user picks a device in the device pick list
SelectDevice ==
    /\ Running
    /\ \E dev \in Devices, pixfmt \in PixelFormats, read \in ControlReadings,
          fails \in AppFailChoices({"create", "format", "set_format",
                                    "query_formats", "query_controls",
                                    "stream"}) :
          eyece' = rendered(DeviceSelected(dev, fails, pixfmt, read), fails)
    /\ UNCHANGED <<worker, recipe, log>>

\* the user picks one of the formats the format pick list offers
SelectFormat ==
    /\ Running
    /\ \E i \in 1..Len(eyece.config.formats),
          fails \in AppFailChoices({"format", "set_format", "stream"}) :
          eyece' = rendered(FormatSelected(eyece.config.formats[i], fails),
                            fails)
    /\ UNCHANGED <<worker, recipe, log>>

\* the user operates the widget of one of the controls the view lists
ChangeControl ==
    /\ Running
    /\ \E i \in 1..Len(eyece.controls),
          fails \in AppFailChoices({"set_control", "stream"}) :
          \E value \in ControlValues(eyece.controls[i].repr) :
             eyece' = rendered(ControlChanged([eyece.controls[i] EXCEPT
                                                  !.value = value], fails),
                               fails)
    /\ UNCHANGED <<worker, recipe, log>>

NextApp == SelectDevice \/ SelectFormat \/ ChangeControl

\* the application's update loop
SpecApp == Init /\ [][NextApp]_vars

\* the executor polls the recipe's unfold in State::Ready
PollReady ==
    /\ recipe.state = "Ready"
    /\ ~recipe.ended
    /\ recipe' = ImageReady(recipe)
    /\ UNCHANGED <<worker, eyece, log>>

\* the executor polls the recipe's unfold in State::Streaming
PollStreaming ==
    /\ recipe.state = "Streaming"
    /\ ~recipe.ended
    /\ Len(recipe.pulls) < MaxPulls
    /\ \E res \in PullResults : recipe' = ImageStreaming(recipe, res)
    /\ UNCHANGED <<worker, eyece, log>>

\* the executor polls the recipe's unfold in State::Broken
PollBroken ==
    /\ recipe.state = "Broken"
    /\ ~recipe.ended
    /\ recipe' = ImageBroken(recipe)
    /\ UNCHANGED <<worker, eyece, log>>

NextImage == PollReady \/ PollStreaming \/ PollBroken

\* the ImageStream recipe, polled until it ends
SpecImage == Init /\ [][NextImage]_vars

\* Log::update(LogMessage::Log(..)) with the next message
LogLogged ==
    /\ log.logged < MaxLogged
    /\ log' = LogMessage_Log(log, LevelOf(log.logged + 1), log.logged + 1)
    /\ UNCHANGED <<worker, eyece, recipe>>

\* the user picks a level in the level pick list
SelectLevel ==
    /\ \E i \in 1..Len(Levels) : log' = LogMessage_LevelSelected(log, Levels[i])
    /\ UNCHANGED <<worker, eyece, recipe>>

NextLog == LogLogged \/ SelectLevel

\* the Log under any sequence of its messages
SpecLog == Init /\ [][NextLog]_vars

----------------------------------------------------------------------------
(* Reading the logs. *)

\* the worker's State after the step that yielded events[i]
StateAfter(i) == IF i < Len(causes) THEN causes[i + 1].st ELSE state

\* the steps that took a Request from the channel
Draining == {i \in 1..Len(causes) : causes[i].req # NoRequest}

\* the Requests the worker has taken from the channel, in the order taken
Taken ==
    LET took == SelectSeq(causes, LAMBDA c : c.req # NoRequest)
    IN [i \in 1..Len(took) |-> took[i].req]

\* the Requests are taken in the order they were sent
TakenInOrderSent ==
    /\ Len(Taken) <= Len(chan.sent)
    /\ Taken = SubSeq(chan.sent, 1, Len(Taken))

----------------------------------------------------------------------------
(* Claims. *)

\* C1: every command received while the worker is Idle yields exactly one
\* Response event of the command's own kind (never an Error event), and the
\* results appear in the order the commands were sent.
C1_IdleCommandYieldsItsResult ==
    /\ Len(events) = Len(causes)
    /\ TakenInOrderSent
    /\ \A i \in Draining :
          causes[i].st = "Idle" =>
              /\ events[i].type = "Response"
              /\ events[i].kind = causes[i].req

\* C2: StopStream is idempotent while Idle: a StopStream received in Idle
\* yields Response::StopStream(Ok), no Error event, and leaves the worker Idle.
C2_StopStreamIdempotentWhileIdle ==
    \A i \in Draining :
        (causes[i].st = "Idle" /\ causes[i].req = "StopStream") =>
            /\ events[i] = ResponseOk("StopStream")
            /\ StateAfter(i) = "Idle"

\* two Stream events with no Stream event between them, the worker being in
\* Streaming for every step from the first to the second
ConsecutiveFrames(i, j) ==
    /\ i < j
    /\ events[i] = Stream
    /\ events[j] = Stream
    /\ \A k \in (i + 1)..(j - 1) : events[k] # Stream
    /\ \A k \in (i + 1)..j : causes[k].st = "Streaming"

Before(op) ==
    LET at == {k \in 1..Len(calls) : calls[k].op = op}
    IN IF at = {} THEN {}
       ELSE {calls[k].op : k \in 1..((CHOOSE k \in at : \A m \in at : k <= m) - 1)}

\* the last worker step took a SetFormat in Streaming
LastStepWasStreamingSetFormat ==
    /\ causes # <<>>
    /\ causes[Len(causes)] = [st |-> "Streaming", req |-> "SetFormat"]

\* C4: at most one frame source is open at any time, also inside a step; a
\* SetFormat taken in Streaming drops the old frame source before the format is
\* read or set and before the new frame source is opened.
C4_AtMostOneFrameSourceOpen ==
    /\ Cardinality(open) <= 1
    /\ peakOpen <= 1
    /\ (stream # NoStream) => open = {stream}
    /\ LastStepWasStreamingSetFormat =>
          /\ calls[1] = Call("drop_stream", TRUE)
          /\ "drop_stream" \in Before("format")
          /\ "drop_stream" \in Before("stream")
          /\ "set_format" \in {calls[k].op : k \in 1..Len(calls)} =>
                 "drop_stream" \in Before("set_format")

\* C4 witness: a SetFormat taken in Streaming changed the format and reopened
\* the stream: the worker streams from a second frame source.
C4_Witness ==
    /\ LastStepWasStreamingSetFormat
    /\ events[Len(events)] = ResponseOk("SetFormat")
    /\ state = "Streaming"
    /\ stream = 2
    /\ open = {2}

\* a channel was created and its Sender (the Connection) has been dropped
SenderReleased == state # "Ready" /\ ~chan.tx

StreamingStops ==
    {i \in Draining : causes[i] = [st |-> "Streaming", req |-> "StopStream"]}

\* C6: Stream (FrameReady) events are yielded only in Streaming.  A StopStream
\* taken in Streaming yields Response::StopStream(Ok), releases the frame
\* source and makes the worker Idle; no Stream event follows that result until
\* a later StartStream has reopened the stream successfully.
C6_FramesOnlyWhileStreaming ==
    /\ \A i \in 1..Len(events) :
          events[i] = Stream =>
              /\ causes[i] = [st |-> "Streaming", req |-> NoRequest]
              /\ StateAfter(i) = "Streaming"
    /\ \A i \in StreamingStops :
          /\ events[i] = ResponseOk("StopStream")
          /\ StateAfter(i) = "Idle"
          /\ \A j \in (i + 1)..Len(events) :
                events[j] = Stream =>
                    \E k \in (i + 1)..(j - 1) :
                        /\ events[k] = ResponseOk("StartStream")
                        /\ StateAfter(k) = "Streaming"
    /\ state = "Streaming" <=> stream # NoStream
    /\ state # "Streaming" => open = {}

\* C6 witness: frames were delivered, a StopStream taken in Streaming was
\* answered Ok, and the worker is Idle with no frame source.
C6_Witness ==
    /\ Len(events) >= 4
    /\ events[Len(events) - 1] = Stream
    /\ Len(events) \in StreamingStops
    /\ events[Len(events)] = ResponseOk("StopStream")
    /\ state = "Idle"
    /\ open = {}

\* the calls of the last worker step that returned Err
FailedCalls == {calls[k].op : k \in {j \in 1..Len(calls) : ~calls[j].ok}}

\* the only step so far is the Ready step, and calls still holds its calls
OnlyOpened == Len(events) = 1 /\ ~ended

\* C7: when opening fails (open_device, the first format(), or the first
\* set_format()), the worker yields exactly one Error event carrying that
\* failure, never yields Connected, and is Finished.
C7_OpenFailureIsTerminal ==
    /\ events # <<>> => causes[1] = [st |-> "Ready", req |-> NoRequest]
    /\ OnlyOpened =>
          /\ FailedCalls \subseteq {"open_device", "format", "set_format"}
          /\ \A op \in FailedCalls : events[1] = Error(ErrOf(op))
          /\ events[1] = Connected => FailedCalls = {}
    /\ (events # <<>> /\ events[1].type = "Error") =>
          /\ Len(events) = 1
          /\ state = "Finished"
          /\ ~device
          /\ ~chan.tx /\ ~chan.rx

\* C7 witness: the first set_format() failed; the only event is its Error and
\* the worker is Finished.
C7_Witness ==
    /\ OnlyOpened
    /\ FailedCalls = {"set_format"}
    /\ events = <<Error(ErrOf("set_format"))>>
    /\ state = "Finished"

\* the steps in which stream.next() returned an error or None
FrameFailures ==
    {i \in 1..Len(events) :
        causes[i] = [st |-> "Streaming", req |-> NoRequest] /\ events[i] # Stream}

\* the steps that took a StartStream in Idle and opened the stream
Restarts ==
    {i \in Draining :
        /\ causes[i] = [st |-> "Idle", req |-> "StartStream"]
        /\ events[i] = ResponseOk("StartStream")}

\* C8: when the frame source fails or ends in Streaming, the step yields one
\* Error event, the frame source is released and the worker is Idle, not
\* Finished; no Stream event follows until a StartStream reopens the stream; a
\* StartStream taken in Idle whose device.stream() succeeds makes the worker
\* Streaming again.
C8_FrameFailureFallsBackToIdle ==
    /\ Len(events) = Len(causes)
    /\ \A i \in FrameFailures :
          /\ events[i] \in {Error(ErrOf("next")), Error("stream died")}
          /\ StateAfter(i) = "Idle"
          /\ \A j \in (i + 1)..Len(events) :
                events[j] = Stream => Restarts \cap (i + 1)..(j - 1) # {}
    /\ \A i \in Restarts : StateAfter(i) = "Streaming"
    /\ (causes # <<>> /\ causes[Len(causes)] = [st |-> "Idle", req |-> "StartStream"]
            /\ calls = <<Call("stream", TRUE)>>) =>
          /\ Len(causes) \in Restarts
          /\ state = "Streaming"
    /\ state = "Idle" => (device /\ stream = NoStream /\ open = {})

\* C8 witness: the frame source failed, the worker fell back to Idle, a later
\* StartStream succeeded and a frame was delivered again.
C8_Witness ==
    \E i \in FrameFailures, j \in Restarts :
        /\ i < j
        /\ j < Len(events)
        /\ events[Len(events)] = Stream
        /\ state = "Streaming"

\* events[i] ends a worker lifetime: Disconnected, or the Error of a failed
\* Ready step
Terminal(i) ==
    \/ events[i] = Disconnected
    \/ events[i].type = "Error" /\ causes[i].st = "Ready"

\* C9: Connected occurs at most once and only as the first event; every
\* Response, Stream and Disconnected event comes after that Connected; and a
\* Disconnected or terminal Error is the last event, so there is at most one.
C9_ConnectedFirstTerminalLast ==
    /\ Len(events) = Len(causes)
    /\ \A i \in 1..Len(events) :
          /\ events[i] = Connected => i = 1
          /\ events[i].type \in {"Response", "Stream", "Disconnected"} =>
                 (i > 1 /\ events[1] = Connected)
          /\ Terminal(i) => i = Len(events)
          /\ causes[i].st = "Ready" => i = 1

\* C9 witness: a lifetime that began with Connected, served a command,
\* delivered a frame and ended with Disconnected.
C9_Witness ==
    /\ Len(events) >= 4
    /\ events[1] = Connected
    /\ \E i \in 2..(Len(events) - 1) : events[i] = Stream
    /\ \E i \in 2..(Len(events) - 1) : events[i].type = "Response"
    /\ events[Len(events)] = Disconnected
    /\ state = "Finished"

\* C10: Finished is terminal.  Once Disconnected or the Error of a failed
\* Ready step has been yielded the worker is Finished; from Finished the only
\* step ends the event stream (the closure returns None): the state stays
\* Finished, no event is added and no device call is made.
C10_FinishedIsTerminal ==
    /\ []((events # <<>> /\ Terminal(Len(events))) <=> state = "Finished")
    /\ [](ended => state = "Finished")
    /\ [][state = "Finished" =>
            /\ state' = "Finished"
            /\ events' = events
            /\ calls' = <<>>
            /\ ended'
            /\ ~device']_vars

\* C10 witness: the worker yielded Disconnected, became Finished and its
\* event stream has ended.
C10_Witness ==
    /\ state = "Finished"
    /\ ended
    /\ Len(events) >= 2
    /\ events[Len(events)] = Disconnected
    /\ calls = <<>>

\* C11: every method of the Connection (start_stream, stop_stream,
\* query_formats, query_controls, set_format, set_control) and its drop
\* complete without a panic, also when the Receiver is already gone: the failed
\* send is ignored.
C11_HandleNeverPanics == ~panicked

\* the steps that yielded Disconnected
Disconnects == {i \in 1..Len(events) : events[i] = Disconnected}

\* the worker is alive, the Connection has been dropped, and the event log
\* has room for one event per Request still queued and for Disconnected
DroppedWithRoom ==
    /\ SenderReleased
    /\ chan.rx
    /\ Len(events) + Len(chan.queue) + 1 <= MaxEvents

\* C13: after the UI drops the Connection, a worker that keeps being polled
\* drains the Requests still queued, yields Disconnected and is Finished, from
\* Idle and from Streaming alike; Disconnected is yielded at most once, and
\* only with the queue drained.
C13_DropLeadsToDisconnected ==
    /\ DroppedWithRoom ~>
           (/\ state = "Finished"
            /\ events[Len(events)] = Disconnected
            /\ chan.queue = <<>>)
    /\ [](Cardinality(Disconnects) <= 1)
    /\ [](Disconnects # {} => chan.queue = <<>> /\ state = "Finished")

\* C13 witness: the Connection was dropped with the worker Streaming; the
\* worker took the StopStream of the drop in Streaming, then found the
\* channel closed in Idle and yielded Disconnected.
C13_Witness ==
    /\ state = "Finished"
    /\ Len(events) >= 4
    /\ events[Len(events)] = Disconnected
    /\ causes[Len(events)].st = "Idle"
    /\ causes[Len(events) - 1] = [st |-> "Streaming", req |-> "StopStream"]
    /\ Cardinality(Disconnects) = 1

\* a step of the UI through its Connection: a Request is sent or the sender
\* is released while the UI holds the handle
HandleStep ==
    /\ HandleHeld
    /\ Len(chan'.sent) > Len(chan.sent) \/ ~chan'.tx

\* a step in which the device or a frame source is called, taken or released
DeviceStep ==
    \/ calls' # calls
    \/ device' # device
    \/ stream' # stream
    \/ open' # open
    \/ opened' # opened

LastCalls == {calls[i] : i \in 1..Len(calls)}

\* the State the last step started from
LastFrom == causes[Len(causes)].st

\* C15: resources are released on every exit path.  A Finished worker holds
\* neither the device nor a frame source and no frame source is left open; an
\* Idle worker holds no frame source and none is left open; the step that
\* leaves Streaming (StopStream, frame error, end of the frames, failed
\* reopen) drops the frame source, and the step that makes a worker with an
\* open device Finished (channel closure, failed negotiation) drops the device.
C15_ResourcesReleased ==
    /\ state = "Finished" => ~device /\ stream = NoStream /\ open = {}
    /\ state = "Idle" => device /\ stream = NoStream /\ open = {}
    /\ (events # <<>> /\ LastFrom = "Streaming" /\ state # "Streaming") =>
           Call("drop_stream", TRUE) \in LastCalls
    /\ (events # <<>> /\ state = "Finished" /\ ~ended
           /\ (LastFrom # "Ready" \/ Call("open_device", TRUE) \in LastCalls)) =>
           Call("drop_device", TRUE) \in LastCalls

\* C15 witness: a SetFormat taken in Streaming dropped the frame source and
\* failed to reopen it; the worker is Idle and no frame source is open.
C15_Witness ==
    /\ state = "Idle"
    /\ events # <<>>
    /\ LastFrom = "Streaming"
    /\ events[Len(events)] = ResponseErr("SetFormat", ErrOf("stream"))
    /\ Call("stream", FALSE) \in LastCalls
    /\ opened >= 1
    /\ open = {}

\* the device calls of a step pull no frame
NoFramePull(cs) == \A i \in 1..Len(cs) : cs[i].op # "next"

\* the worker is alive, at least n Requests were sent, and the event log has
\* room for one event per Request up to the n-th that is not yet taken
SentWithRoom(n) ==
    /\ chan.rx
    /\ Len(chan.sent) >= n
    /\ Len(events) + n <= MaxEvents + Len(Taken)

\* C16: commands are not starved by the frame source.  A Streaming step that
\* finds a Request waiting takes the head of the queue and pulls no frame, so
\* a Request enqueued while Streaming is taken before the next frame pull
\* once those ahead of it are; and with a worker that keeps being polled
\* every Request sent is eventually taken.
C16_CommandsNotStarved ==
    /\ [][(state = "Streaming" /\ chan.queue # <<>> /\ events' # events) =>
            /\ causes'[Len(causes')] =
                  [st |-> "Streaming", req |-> Head(chan.queue)]
            /\ chan'.queue = Tail(chan.queue)
            /\ NoFramePull(calls')
            /\ events'[Len(events')] # Stream]_vars
    /\ \A n \in 1..(MaxLiveSent + 1) : SentWithRoom(n) ~> (Len(Taken) >= n)

\* C16 witness: frames were flowing when a Request was enqueued; the next
\* step took it and pulled no frame, and the step after it pulled a frame.
C16_Witness ==
    /\ Len(events) >= 5
    /\ state = "Streaming"
    /\ events[Len(events)] = Stream
    /\ events[Len(events) - 2] = Stream
    /\ events[Len(events) - 1].type = "Response"
    /\ causes[Len(events) - 1] =
          [st |-> "Streaming", req |-> chan.sent[Len(chan.sent)]]
    /\ chan.queue = <<>>

\* C17: frame delivery is not starved by a flood of commands: each Streaming
\* iteration, after draining at most one Request, pulls a frame, so every
\* iteration that leaves the worker Streaming calls the frame source, also
\* the iterations that found a Request waiting.
C17_FramesNotStarved ==
    [][(state = "Streaming" /\ state' = "Streaming" /\ events' # events) =>
         ~NoFramePull(calls')]_vars

\* the Error of the `_` arm of the Streaming state
RejectedInStreaming == Error("cannot handle this request in streaming state")

\* C18: a StartStream taken while Streaming is rejected: the step yields
\* exactly one event, an Error, makes no device call, and leaves the worker
\* Streaming on the same frame source, with the device held.
C18_StartStreamRejectedInStreaming ==
    [][(/\ state = "Streaming"
        /\ chan.queue # <<>>
        /\ Head(chan.queue) = "StartStream"
        /\ events' # events) =>
          /\ events' = Append(events, RejectedInStreaming)
          /\ causes'[Len(causes')] = [st |-> "Streaming", req |-> "StartStream"]
          /\ chan'.queue = Tail(chan.queue)
          /\ calls' = <<>>
          /\ state' = "Streaming"
          /\ device'
          /\ stream' = stream
          /\ open' = open
          /\ opened' = opened]_vars

\* C18 witness: the worker, Streaming, took a second StartStream and rejected
\* it; it is still Streaming on the first frame source.
C18_Witness ==
    /\ state = "Streaming"
    /\ events # <<>>
    /\ events[Len(events)] = RejectedInStreaming
    /\ causes[Len(causes)] = [st |-> "Streaming", req |-> "StartStream"]
    /\ calls = <<>>
    /\ stream = 1
    /\ open = {1}

\* the device operations that execute a command of the shared handler
CommandOps ==
    {"query_formats", "query_controls", "format", "set_format", "set_control"}

\* the operations in CommandOps that failed among the calls cs
FailedCommandOps(cs) ==
    {cs[i].op : i \in {j \in 1..Len(cs) : ~cs[j].ok /\ cs[j].op \in CommandOps}}

\* the frame source could be opened, if the step opened one
StreamOpenFailed(cs) == Call("stream", FALSE) \in {cs[i] : i \in 1..Len(cs)}

\* events[i] is the failed Response of a command of the shared handler, with
\* the error of one of its device calls
FailedCommand(i) ==
    /\ events[i].type = "Response"
    /\ ~events[i].ok
    /\ events[i].kind \in HandlerRequests
    /\ events[i].err \in {ErrOf(op) : op \in CommandOps}

FailingStep ==
    /\ calls' # calls \/ events' # events
    /\ Failed(calls') > 0

\* C20: the worker does not panic on a failure of the device.  Every step in
\* which a call of the device or of the frame source fails (open, format
\* read, format set, stream open, query, control read or write, frame pull)
\* yields exactly one event and leaves the worker Idle, Streaming or
\* Finished; the worker is never in another State.
C20_WorkerSurvivesDeviceFailure ==
    /\ [][FailingStep =>
            /\ Len(events') = Len(events) + 1
            /\ SubSeq(events', 1, Len(events)) = events
            /\ Len(causes') = Len(causes) + 1
            /\ state' \in {"Idle", "Streaming", "Finished"}
            /\ device' <=> state' # "Finished"
            /\ ~panicked']_vars
    /\ [](state \in {"Ready", "Idle", "Streaming", "Finished"})

\* C20 witness: device.stream() failed for a StartStream; the worker yielded
\* the failed Response and is Idle, holding the device.
C20_Witness ==
    /\ state = "Idle"
    /\ device
    /\ events # <<>>
    /\ events[Len(events)] = ResponseErr("StartStream", ErrOf("stream"))
    /\ calls = <<Call("stream", FALSE)>>
    /\ faults = 1

\* C21: with the one producer of a connection, the worker takes the Requests
\* in exactly the order they were sent, one per step: what was sent is what
\* was taken followed by what still waits; every step appends at most one
\* event to the stream and never reorders it; and the Response of a Request
\* is yielded by the step that took it, so the Responses appear in the order
\* of the Requests.
C21_CommandsAndEventsInOrder ==
    /\ [](TakenInOrderSent)
    /\ [](chan.rx => chan.sent = Taken \o chan.queue)
    /\ [](Len(events) = Len(causes))
    /\ [](\A i \in Draining :
             events[i].type = "Response" => events[i].kind = causes[i].req)
    /\ [][/\ Len(Taken') <= Len(Taken) + 1
          /\ Len(events') <= Len(events) + 1
          /\ SubSeq(events', 1, Len(events)) = events
          /\ SubSeq(chan'.sent, 1, Len(chan.sent)) = chan.sent]_vars

\* C21 witness: three Requests, not all of one kind, were sent and taken; the
\* three last events are their Responses, in the order sent.
C21_Witness ==
    /\ Len(chan.sent) = 3
    /\ Taken = chan.sent
    /\ chan.sent[2] # chan.sent[3]
    /\ chan.sent[1] # chan.sent[2]
    /\ Len(events) = 4
    /\ \A k \in 1..3 :
          /\ events[k + 1].type = "Response"
          /\ events[k + 1].kind = chan.sent[k]

\* the calls of device.set_format among the calls of the last step
SetFormatCalls == {i \in 1..Len(calls) : calls[i].op = "set_format"}

\* the last step was the Ready step: `calls` holds the calls of the opening
AfterReady == Len(events) = 1 /\ ~ended

\* the Error of a device that settled on another pixel format
NoBgra == Error("device does not support BGRA capture")

\* C22: during opening the worker passes to set_format the format it has just
\* read with the pixel format replaced by the target and the width and height
\* kept.  When set_format succeeds and returns another pixel format, the step
\* yields exactly one Error and no Connected and the worker is Finished; when
\* it returns the target, the step yields Connected and the worker is Idle.
\* Connected is only ever the first event.
C22_OpeningNegotiatesTargetLayout ==
    /\ \A i \in 1..Len(events) : events[i] = Connected => i = 1
    /\ AfterReady =>
          /\ \A i \in SetFormatCalls :
                /\ i > 1
                /\ calls[i - 1].op = "format"
                /\ calls[i - 1].ok
                /\ calls[i].arg = Format(TargetPixelFormat,
                                         calls[i - 1].ret.width,
                                         calls[i - 1].ret.height)
                /\ (calls[i].ok /\ calls[i].ret.pixfmt # TargetPixelFormat) =>
                      /\ events = <<NoBgra>>
                      /\ state = "Finished"
                      /\ ~device
                /\ (calls[i].ok /\ calls[i].ret.pixfmt = TargetPixelFormat) =>
                      /\ events = <<Connected>>
                      /\ state = "Idle"
                      /\ device
          /\ events = <<Connected>> =>
                \E i \in SetFormatCalls :
                   calls[i].ok /\ calls[i].ret.pixfmt = TargetPixelFormat

\* C22 witness: the device was at 1920x1080 in another pixel format; the
\* worker asked for 1920x1080 in the target format, the device settled on
\* Bgra(24), and the worker yielded the Error and is Finished.
C22_Witness ==
    /\ AfterReady
    /\ events = <<NoBgra>>
    /\ state = "Finished"
    /\ Len(calls) = 4
    /\ calls[2] = CallRet("format", Format("Other", 1920, 1080))
    /\ calls[3] = CallArg("set_format", TRUE, Format("Bgra32", 1920, 1080),
                          Format("Bgra24", 1920, 1080))

\* the successful Responses to QueryFormats
QueryFormatsResults ==
    {i \in 1..Len(events) :
        events[i].type = "Response" /\ events[i].kind = "QueryFormats"
            /\ events[i].ok}

\* C23: QueryFormats returns exactly the resolutions of the formats the
\* device reports in the target pixel format negotiated during opening, in
\* the device's order: for a device that offers 640x480 and 1280x720 in the
\* target format (among others), Ok([640x480, 1280x720]).
C23_QueryFormatsListsTargetLayout ==
    \A i \in QueryFormatsResults :
       /\ events[i].val = Resolutions(DeviceFormats, TargetPixelFormat)
       /\ events[i].val = <<[width |-> 640, height |-> 480],
                            [width |-> 1280, height |-> 720]>>

\* the device operations the shared handler calls
HandlerOps == CommandOps \cup {"control"}

\* the calls the shared handler made in the last step, in order
HandlerCalls == SelectSeq(calls, LAMBDA c : c.op \in HandlerOps)

\* the last step took a Request of the shared handler
LastStepHandled ==
    /\ events # <<>>
    /\ ~ended
    /\ LastFrom \in {"Idle", "Streaming"}
    /\ causes[Len(causes)].req \in HandlerRequests
    /\ ~StreamOpenFailed(calls)

\* C24: in the shared handler every device call that fails makes the result
\* of the command Err with that failure, also the read of a control's value
\* that follows QueryControls; the failed call is the handler's last call
\* (nothing is retried or gone on with).
C24_HandlerSurfacesEveryFailure ==
    LastStepHandled =>
        \A i \in 1..Len(HandlerCalls) :
           ~HandlerCalls[i].ok =>
               /\ events[Len(events)] =
                     ResponseErr(causes[Len(causes)].req,
                                 ErrOf(HandlerCalls[i].op))
               /\ i = Len(HandlerCalls)

\* the last step took a StartStream in Idle
LastStepStartedStream ==
    /\ events # <<>>
    /\ ~ended
    /\ causes[Len(causes)] = [st |-> "Idle", req |-> "StartStream"]

\* C25: a StartStream taken in Idle calls device.stream() exactly once and
\* nothing else.  When the call succeeds the step yields the Ok Response of
\* StartStream and the worker is Streaming on the frame source just opened,
\* the only one open; when it fails the step yields the Err Response with
\* that error and the worker is Idle with the device and no frame source.
C25_StartStreamInIdle ==
    LastStepStartedStream =>
        /\ Len(calls) = 1
        /\ calls[1].op = "stream"
        /\ device
        /\ calls[1].ok =>
              /\ events[Len(events)] = ResponseOk("StartStream")
              /\ state = "Streaming"
              /\ stream # NoStream
              /\ stream = opened
              /\ open = {stream}
        /\ ~calls[1].ok =>
              /\ events[Len(events)] =
                    ResponseErr("StartStream", ErrOf("stream"))
              /\ state = "Idle"
              /\ stream = NoStream
              /\ open = {}

\* C25 witness: a first StartStream failed and left the worker Idle; a second
\* one opened the frame source and the worker is Streaming on it.
C25_Witness ==
    /\ LastStepStartedStream
    /\ Len(events) = 3
    /\ events[2] = ResponseErr("StartStream", ErrOf("stream"))
    /\ causes[2] = [st |-> "Idle", req |-> "StartStream"]
    /\ events[3] = ResponseOk("StartStream")
    /\ state = "Streaming"
    /\ stream = 1
    /\ calls = <<Call("stream", TRUE)>>

\* the Requests the Streaming state hands to the shared handler as they are
PassedThrough == {"QueryFormats", "QueryControls", "GetFormat", "SetControl"}

\* the operations that open, read or close a frame source or close the device
StreamOps == {"stream", "next", "drop_stream", "drop_device"}

\* C26: a QueryFormats, QueryControls, GetFormat or SetControl taken while
\* Streaming leaves the frame source alone: the worker stays Streaming on the
\* same frame source, which is neither closed nor reopened nor read, and the
\* step yields the Response of the command, Ok or Err.
C26_HandledWhileStreamingKeepsStream ==
    [][(/\ state = "Streaming"
        /\ chan.queue # <<>>
        /\ Head(chan.queue) \in PassedThrough
        /\ events' # events) =>
          /\ state' = "Streaming"
          /\ device'
          /\ stream' = stream
          /\ open' = open
          /\ opened' = opened
          /\ \A i \in 1..Len(calls') : calls'[i].op \notin StreamOps
          /\ events'[Len(events')].type = "Response"
          /\ events'[Len(events')].kind = Head(chan.queue)]_vars

\* C26 witness: a command failed on the device while the worker was
\* Streaming on its first frame source; the worker is still Streaming on it.
C26_Witness ==
    /\ events # <<>>
    /\ ~ended
    /\ LastFrom = "Streaming"
    /\ causes[Len(causes)].req \in PassedThrough
    /\ ~events[Len(events)].ok
    /\ state = "Streaming"
    /\ stream = 1
    /\ open = {1}
    /\ opened = 1

\* the step takes a SetFormat while Streaming
SetFormatWhileStreaming ==
    /\ state = "Streaming"
    /\ chan.queue # <<>>
    /\ Head(chan.queue) = "SetFormat"
    /\ events' # events

\* the Response of the shared handler to a SetFormat whose calls were cs
FormatChangeResult(cs) ==
    IF FailedCommandOps(cs) = {}
    THEN ResponseOk("SetFormat")
    ELSE ResponseErr("SetFormat",
                     ErrOf(CHOOSE op \in FailedCommandOps(cs) : TRUE))

\* C27: a SetFormat taken while Streaming closes the frame source, changes
\* the format and reopens the stream.  When the reopen succeeds the worker
\* stays Streaming on the new frame source, the only one open, and the step
\* yields the result of the format change (Ok or its Err); when the reopen
\* fails the step yields a failed Response of SetFormat and the worker is
\* Idle with the device and no frame source.
C27_SetFormatWhileStreaming ==
    [][SetFormatWhileStreaming =>
         /\ Len(events') = Len(events) + 1
         /\ calls'[1] = Call("drop_stream", TRUE)
         /\ calls'[Len(calls')].op = "stream"
         /\ device'
         /\ calls'[Len(calls')].ok =>
               /\ state' = "Streaming"
               /\ stream' \notin {NoStream, stream}
               /\ open' = {stream'}
               /\ events'[Len(events')] = FormatChangeResult(calls')
         /\ ~calls'[Len(calls')].ok =>
               /\ state' = "Idle"
               /\ stream' = NoStream
               /\ open' = {}
               /\ events'[Len(events')].type = "Response"
               /\ events'[Len(events')].kind = "SetFormat"
               /\ ~events'[Len(events')].ok]_vars

\* C27 witness: the format change failed on the device and the stream was
\* reopened: the step yielded the Err of the format change and the worker is
\* Streaming on the second frame source.
C27_Witness ==
    /\ events # <<>>
    /\ ~ended
    /\ causes[Len(causes)] = [st |-> "Streaming", req |-> "SetFormat"]
    /\ events[Len(events)] = ResponseErr("SetFormat", ErrOf("set_format"))
    /\ calls[Len(calls)] = Call("stream", TRUE)
    /\ state = "Streaming"
    /\ stream = 2
    /\ open = {2}

\* the last step took a SetFormat while Streaming and the reopen failed
ReopenFailed ==
    /\ events # <<>>
    /\ ~ended
    /\ causes[Len(causes)] = [st |-> "Streaming", req |-> "SetFormat"]
    /\ StreamOpenFailed(calls)

\* C28: when a SetFormat is taken while Streaming and the reopen of the
\* stream fails, the one event of the step is the failed Response of
\* SetFormat with the error of the reopen, whatever the format change did: a
\* change the device accepted is not reported as Ok, and the error of a
\* change the device refused is dropped.
C28_ReopenErrorWins ==
    /\ Len(events) = Len(causes)
    /\ ReopenFailed =>
          /\ events[Len(events)] = ResponseErr("SetFormat", ErrOf("stream"))
          /\ state = "Idle"

\* C28 witness: the device refused the format change and then failed to
\* reopen the stream; the event carries the error of the reopen only.
C28_Witness ==
    /\ ReopenFailed
    /\ Call("format", TRUE) \in LastCalls
    /\ Call("set_format", FALSE) \in LastCalls
    /\ events[Len(events)] = ResponseErr("SetFormat", ErrOf("stream"))
    /\ faults = 2

\* C29: the worker is never Streaming on a channel that is closed and empty.
\* While it is Streaming with the sender released, the StopStream of the drop
\* still waits at the end of the queue, so a poll in Streaming that finds no
\* Request (the step that pulls a frame) is a poll of an open channel, and
\* the case try_recv() does not tell apart cannot keep the worker Streaming
\* after the drop.
C29_NeverStreamingOnClosedChannel ==
    /\ (state = "Streaming" /\ chan.queue = <<>>) => chan.tx
    /\ (state = "Streaming" /\ ~chan.tx) =>
          /\ chan.rx
          /\ chan.queue[Len(chan.queue)] = "StopStream"

\* C29 witness: frames were flowing when the UI dropped the Connection; the
\* worker is still Streaming and the StopStream of the drop is waiting.
C29_Witness ==
    /\ state = "Streaming"
    /\ ~chan.tx
    /\ chan.queue = <<"StopStream">>
    /\ events[Len(events)] = Stream
    /\ calls = <<Call("next", TRUE)>>

\* the format list or the control list offered to the user is non-empty
ListsOffered == eyece.config.formats # <<>> \/ eyece.controls # <<>>

\* C30: in the application's update loop, FormatSelected and ControlChanged
\* are only ever handled while a device is held (neither panics in its
\* unwrap() of the device): whenever the format list or the control list
\* offered to the user is non-empty, the device field is present.
C30_ListsOfferedOnlyWithDevice ==
    /\ eyece.panicked \notin {"FormatSelected", "ControlChanged"}
    /\ ListsOffered => eyece.device # NoDevice

\* the events of the recipe and the results of its frame pulls
ImageEvents == recipe.events
ImagePulls == recipe.pulls

\* the event the recipe owes to the result res of a frame pull
EventOf(res) ==
    IF res.ok
    THEN Advanced(from_pixels(res.frame.width, res.frame.height,
                              res.frame.raw))
    ELSE Errored

\* a step of the recipe after it has emitted Errored ends the stream, with no
\* event and no frame pull
AfterErrored ==
    (Errored \in {ImageEvents[i] : i \in 1..Len(ImageEvents)}
       /\ recipe' # recipe)
    => (/\ recipe'.ended
        /\ recipe'.events = ImageEvents
        /\ recipe'.pulls = ImagePulls)

\* C31: the ImageStream recipe emits Started exactly once, as its first
\* event; then one Advanced event per successfully pulled frame, carrying
\* that frame, in the order of the pulls; on the first frame error it emits
\* Errored exactly once; after Errored there is no further event and no
\* further frame pull, and the next poll ends the stream.  The stream ends
\* in no other way.
C31_ImageStreamEvents ==
    /\ [](/\ \A i \in 1..Len(ImageEvents) : (ImageEvents[i] = Started) <=> i = 1
          /\ ImageEvents = <<>> => ImagePulls = <<>>
          /\ ImageEvents # <<>> => Len(ImageEvents) = Len(ImagePulls) + 1
          /\ \A i \in 1..Len(ImagePulls) :
                /\ ImageEvents[i + 1] = EventOf(ImagePulls[i])
                /\ ~ImagePulls[i].ok => i = Len(ImagePulls)
          /\ recipe.ended =>
                ImageEvents # <<>> /\ ImageEvents[Len(ImageEvents)] = Errored)
    /\ [][AfterErrored]_vars

\* two frames were pulled, then a pull failed, and the stream has ended
C31_Witness ==
    /\ recipe.ended
    /\ Len(ImagePulls) = 3
    /\ ImagePulls[1].ok /\ ImagePulls[2].ok /\ ~ImagePulls[3].ok
    /\ ImagePulls[1] # ImagePulls[2]

\* the entry of the n-th message that was logged
Logged(n) == LogEntry(LevelOf(n), n)

\* a Log message appends its entry, after the entries already held or after
\* all of them but the oldest; LevelSelected leaves the buffer as it is
LogStep ==
    /\ log'.logged # log.logged =>
          /\ log'.level = log.level
          /\ \/ log'.buffer = Append(log.buffer, Logged(log'.logged))
             \/ /\ log.buffer # <<>>
                /\ log'.buffer = Append(Tail(log.buffer), Logged(log'.logged))
    /\ log'.level # log.level =>
          /\ log'.buffer = log.buffer
          /\ log'.logged = log.logged

\* C32: the log buffer is bounded: after any sequence of Log messages it
\* holds at most 101 entries (LogCapacity + 1); its entries are the most
\* recent messages in insertion order, so an evicted entry is the oldest
\* one; LevelSelected changes only the level and leaves the buffer
\* unchanged.
C32_LogBufferBounded ==
    /\ [](/\ Len(log.buffer) <= LogCapacity + 1
          /\ Len(log.buffer) <= log.logged
          /\ \A i \in 1..Len(log.buffer) :
                log.buffer[i] = Logged(log.logged - Len(log.buffer) + i))
    /\ [][LogStep]_vars

\* entries have been evicted from a full buffer and another level is selected
C32_Witness ==
    /\ Len(log.buffer) = LogCapacity + 1
    /\ log.logged > LogCapacity + 2
    /\ log.buffer[1].message = log.logged - LogCapacity
    /\ log.level = "Verbose"

====
